---- MODULE Spec2Model ----
(***************************************************************************)
(* Model of examples/receipt_extractor_client.py: the ReceiptExtractor-    *)
(* Client methods process_receipt_file, process_receipt_bytes,             *)
(* process_receipt_url, _send_request and validate_schema, and main().     *)
(*                                                                         *)
(* Two specifications:                                                     *)
(*   Spec          the client calls, from the call to the value returned   *)
(*                 or the exception raised, with the network as the        *)
(*                 environment;                                            *)
(*   SpecValidate  validate_schema applied to parsed JSON documents.       *)
(***************************************************************************)
EXTENDS Integers, Sequences, FiniteSets, TLC

VARIABLES
    api_key,        \* self.api_key
    timeout,        \* self.timeout
    jsonErrIsReqExc,\* the installed requests: is the exception of response.json() a RequestException
    pc,             \* where the current call stands
    caller,         \* "main" or "lib": who called the method
    source,         \* which method was called
    validate,       \* args.validate of main
    args,           \* the arguments of the call
    request,        \* the POST as issued to api_url, or NoRequest
    posts,          \* how many times requests.post was called in this call
    fetched,        \* what the GET of process_receipt_url came back with
    response,       \* what the POST came back with
    outcome,        \* what the method returned or raised
    printed,        \* what main printed as "Extracted Data"
    exit_code,      \* main's exit status
    error,          \* the exception main printed as "Error: ..."
    calls,          \* calls made so far
    doc,            \* SpecValidate: the parsed JSON document
    edits,          \* SpecValidate: edits applied to doc
    verdict         \* SpecValidate: what validate_schema(doc) returned or raised

vars == <<api_key, timeout, jsonErrIsReqExc, pc, caller, source, validate, args,
          request, posts, fetched, response, outcome, printed, exit_code, error,
          calls, doc, edits, verdict>>

clientVars == <<api_key, timeout, jsonErrIsReqExc, pc, caller, source, validate,
                args, request, posts, fetched, response, outcome, printed, exit_code,
                error, calls>>

validatorVars == <<doc, edits, verdict>>

----------------------------------------------------------------------------
(* Bounds of the model. *)

MaxEdits == 2       \* edits applied to a document before it is validated
MaxItems == 2       \* items of a document
MaxCalls == 2       \* calls made one after the other on one client

----------------------------------------------------------------------------
(* Parsed JSON values, as json.loads builds them: None, bool, int, float,  *)
(* str, list, dict.  A scalar keeps its JSON text in s.                    *)

JNull == [t |-> "null", s |-> "null"]
JBool(b) == [t |-> "bool", s |-> b]
JInt(n) == [t |-> "int", s |-> n]
JFloat(x) == [t |-> "float", s |-> x]
JStr(x) == [t |-> "str", s |-> x]
JList(xs) == [t |-> "list", elems |-> xs]
JObj(fs) == [t |-> "obj", fields |-> fs]

NoVal == [t |-> "none", s |-> ""]
PyTrue == JBool("true")

(* isinstance(v, str), isinstance(v, list), isinstance(v, dict). *)
IsStr(v) == v.t = "str"
IsList(v) == v.t = "list"
IsDict(v) == v.t = "obj"

(* isinstance(v, int): bool is a subclass of int in Python, so True and    *)
(* False are instances of int.                                             *)
IsInt(v) == v.t \in {"int", "bool"}

(* isinstance(v, (int, float)). *)
IsIntOrFloat(v) == IsInt(v) \/ v.t = "float"

----------------------------------------------------------------------------
(* What a call ends with: a returned value or a raised exception.  The     *)
(* message of an exception is the f-string it was built from (tpl) and the *)
(* values put into it: strings, numbers, or one JSON value.                *)

Msg(tpl, strs, nums, val) == [tpl |-> tpl, strs |-> strs, nums |-> nums, val |-> val]
NoMsg == Msg("", <<>>, <<>>, NoVal)
NoOutcome == [kind |-> "none", value |-> NoVal, exc |-> "", msg |-> NoMsg]
Return(v) == [kind |-> "return", value |-> v, exc |-> "", msg |-> NoMsg]
Raise(exc, msg) == [kind |-> "raise", value |-> NoVal, exc |-> exc, msg |-> msg]

----------------------------------------------------------------------------
(* validate_schema *)

required_fields == <<"merchant_name", "datetime", "items", "sub_total", "vat",
                     "service_charge", "total">>
numeric_fields == <<"sub_total", "vat", "service_charge", "total">>

AllNames == "merchant_name datetime items sub_total vat service_charge total"

Range(seq) == {seq[i] : i \in 1..Len(seq)}

(* `needle in hay` for two str: the substring test, on the strings of the  *)
(* model: AllNames holds every field name, "items" holds itself, the other *)
(* strings hold no field name.                                             *)
IsSubstring(needle, hay) ==
    \/ needle = hay
    \/ hay = AllNames /\ needle \in Range(required_fields)

(* `field in data`: key of a dict, element of a list, substring of a str;  *)
(* any other value is not iterable and the test raises TypeError.          *)
PyIn(field, data) ==
    CASE IsDict(data) -> IF field \in DOMAIN data.fields THEN "yes" ELSE "no"
      [] IsList(data) -> IF \E i \in 1..Len(data.elems) : data.elems[i] = JStr(field)
                         THEN "yes" ELSE "no"
      [] IsStr(data) -> IF IsSubstring(field, data.s) THEN "yes" ELSE "no"
      [] OTHER -> "TypeError"

MissingField(field) == Msg("Missing required field: {field}", <<field>>, <<>>, NoVal)
ItemMsg(tpl, i) == Msg(tpl, <<>>, <<i>>, NoVal)
FieldMsg(tpl, field) == Msg(tpl, <<field>>, <<>>, NoVal)

(* The body of `for i, item in enumerate(data['items'])` for one item; i   *)
(* is the index enumerate gives (from 0).  NoOutcome: the item passes.     *)
CheckItem(i, item) ==
    IF ~IsDict(item)
        THEN Raise("ValueError", ItemMsg("Item at index {i} is not a dictionary", i))
    ELSE IF "name" \notin DOMAIN item.fields
        THEN Raise("ValueError", ItemMsg("Item at index {i} is missing 'name' field", i))
    ELSE IF "price" \notin DOMAIN item.fields
        THEN Raise("ValueError", ItemMsg("Item at index {i} is missing 'price' field", i))
    ELSE IF "count" \notin DOMAIN item.fields
        THEN Raise("ValueError", ItemMsg("Item at index {i} is missing 'count' field", i))
    ELSE IF ~IsStr(item.fields["name"])
        THEN Raise("ValueError", ItemMsg("Item at index {i} has 'name' that is not a string", i))
    ELSE IF ~IsIntOrFloat(item.fields["price"])
        THEN Raise("ValueError", ItemMsg("Item at index {i} has 'price' that is not a number", i))
    ELSE IF ~IsInt(item.fields["count"])
        THEN Raise("ValueError", ItemMsg("Item at index {i} has 'count' that is not an integer", i))
    ELSE NoOutcome

(* The first of the positions at which a loop of checks fails, or 0. *)
FirstFailing(failing) ==
    IF failing = {} THEN 0 ELSE CHOOSE k \in failing : \A j \in failing : k <= j

(* Lines 239-253, reached with data a dict holding every required field    *)
(* and every item passed.                                                  *)
CheckScalars(data) ==
    LET bad == FirstFailing({k \in 1..Len(numeric_fields) :
                                ~IsIntOrFloat(data.fields[numeric_fields[k]])})
    IN  IF bad # 0
            THEN Raise("ValueError",
                       FieldMsg("The '{field}' field must be a number", numeric_fields[bad]))
        ELSE IF ~IsStr(data.fields["merchant_name"])
            THEN Raise("ValueError",
                       FieldMsg("The 'merchant_name' field must be a string", "merchant_name"))
        ELSE IF ~IsStr(data.fields["datetime"])
            THEN Raise("ValueError",
                       FieldMsg("The 'datetime' field must be a string", "datetime"))
        ELSE Return(PyTrue)

(* Lines 210-237, reached with data a dict holding every required field. *)
CheckItems(data) ==
    LET items == data.fields["items"] IN
    IF ~IsList(items)
        THEN Raise("ValueError", FieldMsg("The 'items' field must be a list", "items"))
    ELSE
        LET bad == FirstFailing({k \in 1..Len(items.elems) :
                                    CheckItem(k - 1, items.elems[k]).kind = "raise"})
        IN  IF bad # 0 THEN CheckItem(bad - 1, items.elems[bad])
            ELSE CheckScalars(data)

(* validate_schema(data) *)
validate_schema(data) ==
    LET stop == FirstFailing({k \in 1..Len(required_fields) :
                                PyIn(required_fields[k], data) # "yes"})
    IN  IF stop # 0
            THEN IF PyIn(required_fields[stop], data) = "TypeError"
                 THEN Raise("TypeError", Msg("argument of type is not iterable", <<>>, <<>>, NoVal))
                 ELSE Raise("ValueError", MissingField(required_fields[stop]))
        ELSE IF ~IsDict(data)
            \* data['items'] on a list or a str
            THEN Raise("TypeError", Msg("indices must be integers", <<>>, <<>>, NoVal))
        ELSE CheckItems(data)

----------------------------------------------------------------------------
(* SpecValidate: validate_schema on parsed documents.  A document starts   *)
(* as a receipt of 0..MaxItems items, an empty object or a value that is   *)
(* no object, takes up to MaxEdits edits, and is then validated.           *)

EmptyFields == [k \in {} |-> JNull]

SetKey(fs, f, v) == [k \in DOMAIN fs \cup {f} |-> IF k = f THEN v ELSE fs[k]]
DelKey(fs, f) == [k \in DOMAIN fs \ {f} |-> fs[k]]

BaseItem ==
    JObj([k \in {"name", "price", "count"} |->
            CASE k = "name" -> JStr("Latte")
              [] k = "price" -> JFloat("4.5")
              [] k = "count" -> JInt("2")])

BaseReceipt(n) ==
    JObj([k \in Range(required_fields) |->
            CASE k = "merchant_name" -> JStr("Cafe")
              [] k = "datetime" -> JStr("2024-01-31T10:00:00")
              [] k = "items" -> JList([i \in 1..n |-> BaseItem])
              [] k = "sub_total" -> JFloat("9.0")
              [] k = "vat" -> JFloat("0.63")
              [] k = "service_charge" -> JInt("0")
              [] k = "total" -> JFloat("9.63")])

ScalarVals == {JNull, JBool("true"), JInt("3"), JFloat("3.0"), JStr("3")}
FieldVals == ScalarVals \cup {JList(<<>>), JObj(EmptyFields)}
NonDictItems == {JStr("Latte"), JNull, JList(<<>>)}
ItemKeys == {"name", "price", "count"}

NonObjectDocs ==
    {JNull, JBool("true"), JInt("3"), JFloat("3.0"), JStr("a"), JStr("items"),
     JStr(AllNames), JList(<<>>), JList([i \in 1..Len(required_fields) |-> JStr(required_fields[i])])}

InitDocs == {BaseReceipt(n) : n \in 0..MaxItems} \cup {JObj(EmptyFields)} \cup NonObjectDocs

CanEdit == verdict = NoOutcome /\ edits < MaxEdits /\ IsDict(doc)

HasItemList == "items" \in DOMAIN doc.fields /\ IsList(doc.fields["items"])

WithItem(i, item) ==
    JObj(SetKey(doc.fields, "items",
                JList([doc.fields["items"].elems EXCEPT ![i] = item])))

SetField(f, v) ==
    /\ CanEdit
    /\ doc' = JObj(SetKey(doc.fields, f, v))
    /\ edits' = edits + 1
    /\ UNCHANGED <<verdict, clientVars>>

DelField(f) ==
    /\ CanEdit
    /\ f \in DOMAIN doc.fields
    /\ doc' = JObj(DelKey(doc.fields, f))
    /\ edits' = edits + 1
    /\ UNCHANGED <<verdict, clientVars>>

SetItemField(i, k, v) ==
    /\ CanEdit
    /\ HasItemList
    /\ i \in 1..Len(doc.fields["items"].elems)
    /\ IsDict(doc.fields["items"].elems[i])
    /\ doc' = WithItem(i, JObj(SetKey(doc.fields["items"].elems[i].fields, k, v)))
    /\ edits' = edits + 1
    /\ UNCHANGED <<verdict, clientVars>>

DelItemField(i, k) ==
    /\ CanEdit
    /\ HasItemList
    /\ i \in 1..Len(doc.fields["items"].elems)
    /\ IsDict(doc.fields["items"].elems[i])
    /\ k \in DOMAIN doc.fields["items"].elems[i].fields
    /\ doc' = WithItem(i, JObj(DelKey(doc.fields["items"].elems[i].fields, k)))
    /\ edits' = edits + 1
    /\ UNCHANGED <<verdict, clientVars>>

ReplaceItem(i, v) ==
    /\ CanEdit
    /\ HasItemList
    /\ i \in 1..Len(doc.fields["items"].elems)
    /\ doc' = WithItem(i, v)
    /\ edits' = edits + 1
    /\ UNCHANGED <<verdict, clientVars>>

Validate ==
    /\ verdict = NoOutcome
    /\ verdict' = validate_schema(doc)
    /\ UNCHANGED <<doc, edits, clientVars>>

----------------------------------------------------------------------------
(* Strings the code takes apart (file names, content types) are sequences  *)
(* of characters.                                                          *)

LowerChar(c) ==
    CASE c = "A" -> "a"
      [] c = "B" -> "b"
      [] c = "C" -> "c"
      [] c = "D" -> "d"
      [] c = "E" -> "e"
      [] c = "F" -> "f"
      [] c = "G" -> "g"
      [] c = "H" -> "h"
      [] c = "I" -> "i"
      [] c = "J" -> "j"
      [] c = "K" -> "k"
      [] c = "L" -> "l"
      [] c = "M" -> "m"
      [] c = "N" -> "n"
      [] c = "O" -> "o"
      [] c = "P" -> "p"
      [] c = "Q" -> "q"
      [] c = "R" -> "r"
      [] c = "S" -> "s"
      [] c = "T" -> "t"
      [] c = "U" -> "u"
      [] c = "V" -> "v"
      [] c = "W" -> "w"
      [] c = "X" -> "x"
      [] c = "Y" -> "y"
      [] c = "Z" -> "z"
      [] OTHER -> c

(* Lower without the lowering: the suffix compared as written. *)
Lower_AsWritten(str) == str

(* str.lower() *)
Lower(str) == [i \in 1..Len(str) |-> LowerChar(str[i])]

(* str.startswith(prefix) *)
StartsWith(str, prefix) ==
    /\ Len(str) >= Len(prefix)
    /\ SubSeq(str, 1, Len(prefix)) = prefix

(* PurePath.suffix of a path whose last component is name: the part from   *)
(* the last dot on, empty when there is no dot or the last dot is the      *)
(* first or the last character of the name.                                *)
Suffix(name) ==
    LET dots == {i \in 1..Len(name) : name[i] = "."}
        last == IF dots = {} THEN 0 ELSE CHOOSE i \in dots : \A j \in dots : j <= i
    IN  IF 1 < last /\ last < Len(name) THEN SubSeq(name, last, Len(name)) ELSE <<>>

ImagePrefix == <<"i", "m", "a", "g", "e", "/">>

(* IsImageType without the test: every declared type goes through. *)
IsImageType_Any(content_type) == TRUE

(* content_type.startswith('image/') *)
IsImageType(content_type) == StartsWith(content_type, ImagePrefix)

content_type_map ==
    (<<".", "j", "p", "g">> :> <<"i", "m", "a", "g", "e", "/", "j", "p", "e", "g">>
     @@ <<".", "j", "p", "e", "g">> :> <<"i", "m", "a", "g", "e", "/", "j", "p", "e", "g">>
     @@ <<".", "p", "n", "g">> :> <<"i", "m", "a", "g", "e", "/", "p", "n", "g">>
     @@ <<".", "g", "i", "f">> :> <<"i", "m", "a", "g", "e", "/", "g", "i", "f">>
     @@ <<".", "b", "m", "p">> :> <<"i", "m", "a", "g", "e", "/", "b", "m", "p">>
     @@ <<".", "w", "e", "b", "p">> :> <<"i", "m", "a", "g", "e", "/", "w", "e", "b", "p">>
     @@ <<".", "h", "e", "i", "c">> :> <<"i", "m", "a", "g", "e", "/", "h", "e", "i", "c">>)

(* content_type_map.get(extension): the entry, or None (here <<>>). *)
MapGet(extension) ==
    IF extension \in DOMAIN content_type_map THEN content_type_map[extension] ELSE <<>>

----------------------------------------------------------------------------
(* Inputs of the calls. *)

FileNames ==
    {<<"r", ".", "j", "p", "g">>,
     <<"r", ".", "J", "P", "G">>,
     <<"r", ".", "J", "p", "e", "g">>,
     <<"r", ".", "p", "n", "g">>,
     <<"r", ".", "G", "I", "F">>,
     <<"r", ".", "b", "m", "p">>,
     <<"r", ".", "w", "e", "b", "p">>,
     <<"r", ".", "H", "e", "i", "C">>,
     <<"r", ".", "t", "i", "f", "f">>,
     <<"r", ".", "p", "d", "f">>,
     <<"r", ".", "j", "p", "g", "x">>,
     <<"r">>,
     <<".", "p", "n", "g">>,
     <<"r", ".">>,
     <<"a", ".", "b", ".", "p", "n", "g">>,
     <<"r", ".", "p", "n", "g", ".", "t", "x", "t">>}

(* What is at a path: nothing, a regular file, or a directory. *)
PathKinds == {"missing", "file", "dir"}

ContentTypes ==
    {<<"i", "m", "a", "g", "e", "/", "j", "p", "e", "g">>,
     <<"i", "m", "a", "g", "e", "/", "p", "n", "g">>,
     <<"i", "m", "a", "g", "e", "/", "h", "e", "i", "c">>,
     <<"i", "m", "a", "g", "e", "/", "t", "i", "f", "f">>,
     <<"i", "m", "a", "g", "e", "/", "s", "v", "g", "+", "x", "m", "l">>,
     <<"i", "m", "a", "g", "e", "/">>,
     <<"I", "m", "a", "g", "e", "/", "p", "n", "g">>,
     <<"t", "e", "x", "t", "/", "h", "t", "m", "l">>,
     <<>>}

ApiKeys == {"key-A", "key-B"}
Timeouts == {5, 30}

NoHeaders == [given |-> FALSE, map |-> EmptyFields]
Given(map) == [given |-> TRUE, map |-> map]

(* The headers a caller of _send_request may pass. *)
HeaderArgs ==
    {NoHeaders,
     Given(EmptyFields),
     Given("Authorization" :> "Bearer t"),
     Given("X-API-Key" :> "other-key"),
     Given("Authorization" :> "Bearer t" @@ "X-API-Key" :> "other-key"),
     Given("authorization" :> "Bearer t"),
     Given("Accept" :> "application/json")}

NoPath == [kind |-> "missing", name |-> <<>>]
NoArgs == [image_path |-> NoPath, content_type |-> <<>>, headers |-> NoHeaders]

----------------------------------------------------------------------------
(* The network: what requests.get and requests.post come back with.        *)

BodyReceipt ==
    "{\"merchant_name\":\"Cafe\",\"datetime\":\"2024-01-31T10:00:00\",\"items\":[{\"name\":\"Latte\",\"price\":4.5,\"count\":2}],\"sub_total\":9.0,\"vat\":0.63,\"service_charge\":0,\"total\":9.63}"
BodyNoItems ==
    "{\"merchant_name\":\"Cafe\",\"datetime\":\"2024-01-31T10:00:00\",\"sub_total\":9.0,\"vat\":0.63,\"service_charge\":0,\"total\":9.63}"
BodyError == "{\"error\":\"bad image\"}"
BodyDetail == "{\"detail\":\"quota exceeded\"}"
BodyList == "[]"
BodyHtml == "<html>502 Bad Gateway</html>"
BodyEmpty == ""

Bodies == {BodyReceipt, BodyNoItems, BodyError, BodyDetail, BodyList, BodyHtml, BodyEmpty}
Statuses == {200, 201, 400, 500}

Parsed(v) == [ok |-> TRUE, value |-> v]
NotJson == [ok |-> FALSE, value |-> NoVal]

(* json.loads of the bodies of the model. *)
JsonLoads(text) ==
    CASE text = BodyReceipt -> Parsed(BaseReceipt(1))
      [] text = BodyNoItems -> Parsed(JObj(DelKey(BaseReceipt(1).fields, "items")))
      [] text = BodyError -> Parsed(JObj("error" :> JStr("bad image")))
      [] text = BodyDetail -> Parsed(JObj("detail" :> JStr("quota exceeded")))
      [] text = BodyList -> Parsed(JList(<<>>))
      [] OTHER -> NotJson

Failure(cls) == [kind |-> "failure", cls |-> cls, status |-> 0, body |-> "", content_type |-> <<>>]
HttpResponse(status, body, content_type) ==
    [kind |-> "response", cls |-> "", status |-> status, body |-> body,
     content_type |-> content_type]
NoResponse == [kind |-> "none", cls |-> "", status |-> 0, body |-> "", content_type |-> <<>>]

TransportFailures == {"ConnectTimeout", "ReadTimeout", "ConnectionError", "SSLError"}

PostResults ==
    {Failure(c) : c \in TransportFailures}
    \cup {HttpResponse(st, b, <<>>) : st \in Statuses, b \in Bodies}

(* A response without a Content-Type header reads as '' (headers.get). *)
GetResults ==
    {Failure(c) : c \in TransportFailures}
    \cup {HttpResponse(st, "bytes", ct) : st \in {200, 404}, ct \in ContentTypes}

(* Response.ok: raise_for_status() does not raise, which it does for a     *)
(* status of 400..599.                                                     *)
Ok(status) == ~(400 <= status /\ status < 600)

(* str(e) of the exceptions of the requests library. *)
FailureText(cls) ==
    CASE cls = "ConnectTimeout" -> "connect timed out"
      [] cls = "ReadTimeout" -> "read timed out"
      [] cls = "ConnectionError" -> "connection refused"
      [] cls = "SSLError" -> "certificate verify failed"
      [] cls = "HTTPError" -> "client or server error"
      [] OTHER -> "Expecting value: line 1 column 1 (char 0)"

LibraryError(cls) == Raise(cls, Msg(FailureText(cls), <<>>, <<>>, NoVal))

(* The classes an exception is an instance of.  The exception that         *)
(* response.json() raises on a body that is no JSON is a ValueError in     *)
(* every requests, and a RequestException as well in the installed one     *)
(* when jsonErrIsReqExc.                                                   *)
Ancestors(cls) ==
    CASE cls = "ConnectTimeout" -> {"ConnectTimeout", "ConnectionError", "Timeout", "RequestException"}
      [] cls = "ReadTimeout" -> {"ReadTimeout", "Timeout", "RequestException"}
      [] cls = "ConnectionError" -> {"ConnectionError", "RequestException"}
      [] cls = "SSLError" -> {"SSLError", "ConnectionError", "RequestException"}
      [] cls = "HTTPError" -> {"HTTPError", "RequestException"}
      [] cls = "JSONDecodeError" ->
            IF jsonErrIsReqExc
            THEN {"JSONDecodeError", "InvalidJSONError", "RequestException", "ValueError"}
            ELSE {"JSONDecodeError", "ValueError"}
      [] OTHER -> {cls}

----------------------------------------------------------------------------
(* _send_request *)

(* AddApiKey setting the key whatever the headers hold. *)
AddApiKey_Overwrite(headers) ==
    SetKey(IF headers.given THEN headers.map ELSE EmptyFields, "X-API-Key", api_key)

(* Lines 156-161: the headers of the POST. *)
AddApiKey(headers) ==
    LET h == IF headers.given THEN headers.map ELSE EmptyFields
    IN  IF "X-API-Key" \notin DOMAIN h /\ "Authorization" \notin DOMAIN h
        THEN SetKey(h, "X-API-Key", api_key)
        ELSE h

NoRequest == [sent |-> FALSE, encoding |-> "", content_type |-> <<>>,
              headers |-> EmptyFields, timeout |-> 0]

(* Lines 165-171: requests.post(self.api_url, data, files, headers, timeout). *)
PostRequest(encoding, content_type, headers) ==
    [sent |-> TRUE, encoding |-> encoding, content_type |-> content_type,
     headers |-> AddApiKey(headers), timeout |-> timeout]

(* Lines 174-181: a response that is not ok. *)
ErrorResponse(res) ==
    LET error_data == JsonLoads(res.body) IN
    IF ~error_data.ok
        \* response.json() raised a ValueError, caught at line 178
        THEN Raise("ValueError",
                   Msg("API error: {response.status_code} {response.text}",
                       <<res.body>>, <<res.status>>, NoVal))
    ELSE IF ~IsDict(error_data.value)
        \* error_data.get on a list, str, number or None
        THEN Raise("AttributeError", Msg("object has no attribute 'get'", <<>>, <<>>, NoVal))
    ELSE IF "error" \in DOMAIN error_data.value.fields
        THEN Raise("ValueError", Msg("{error_message}", <<>>, <<>>, error_data.value.fields["error"]))
    ELSE Raise("ValueError", Msg("API error: {response.status_code}", <<>>, <<res.status>>, NoVal))

(* Lines 165-184: what the body of the try block ends with. *)
InTry(res) ==
    IF res.kind = "failure" THEN LibraryError(res.cls)
    ELSE IF ~Ok(res.status) THEN ErrorResponse(res)
    ELSE IF JsonLoads(res.body).ok THEN Return(JsonLoads(res.body).value)
    ELSE LibraryError("JSONDecodeError")

(* ExceptClauses with the two clauses in the other order. *)
ExceptClauses_NetworkFirst(e) ==
    IF "RequestException" \in Ancestors(e.exc)
        THEN Raise("ValueError", Msg("Network error: {str(e)}", <<e.msg.tpl>>, <<>>, NoVal))
    ELSE IF "Timeout" \in Ancestors(e.exc)
        THEN Raise("ValueError",
                   Msg("Request timed out after {self.timeout} seconds", <<>>, <<timeout>>, NoVal))
    ELSE e

(* Lines 185-188: the except clauses, tried in order. *)
ExceptClauses(e) ==
    IF "Timeout" \in Ancestors(e.exc)
        THEN Raise("ValueError",
                   Msg("Request timed out after {self.timeout} seconds", <<>>, <<timeout>>, NoVal))
    ELSE IF "RequestException" \in Ancestors(e.exc)
        THEN Raise("ValueError", Msg("Network error: {str(e)}", <<e.msg.tpl>>, <<>>, NoVal))
    ELSE e

(* Lines 164-188: what _send_request ends with, given what the POST came   *)
(* back with.                                                              *)
SendResult(res) ==
    IF InTry(res).kind = "raise" THEN ExceptClauses(InTry(res)) ELSE InTry(res)

----------------------------------------------------------------------------
(* main, lines 284-303, after the call returned or raised. *)

(* MainAfterCall without the call of validate_schema. *)
MainAfterCall_NoValidation(flag, out) ==
    IF out.kind = "raise"
        THEN [printed |-> NoVal, exit_code |-> 1, error |-> out]
    ELSE [printed |-> out.value, exit_code |-> 0, error |-> NoOutcome]

MainAfterCall(flag, out) ==
    IF out.kind = "raise"
        THEN [printed |-> NoVal, exit_code |-> 1, error |-> out]
    ELSE IF flag /\ validate_schema(out.value).kind = "raise"
        THEN [printed |-> NoVal, exit_code |-> 1, error |-> validate_schema(out.value)]
    ELSE [printed |-> out.value, exit_code |-> 0, error |-> NoOutcome]

----------------------------------------------------------------------------
(* Spec: the calls. *)

Callers == {"main", "lib"}

CanCall == pc = "idle" /\ calls < MaxCalls

Begin(c, src, v, a) ==
    /\ caller' = c
    /\ source' = src
    /\ validate' = (c = "main" /\ v)
    /\ args' = a
    /\ calls' = calls + 1

(* The call ends without a request. *)
EndEarly(out) ==
    /\ outcome' = out
    /\ pc' = "returned"
    /\ UNCHANGED <<request, posts>>

(* The call reaches requests.post. *)
IssuePost(encoding, content_type, headers) ==
    /\ request' = PostRequest(encoding, content_type, headers)
    /\ posts' = posts + 1
    /\ pc' = "posting"
    /\ UNCHANGED outcome

(* process_receipt_file(image_path), to the POST or the exception. *)
process_receipt_file(c, v, name, kind) ==
    /\ CanCall
    /\ Begin(c, "file", v, [NoArgs EXCEPT !.image_path = [kind |-> kind, name |-> name]])
    /\ LET extension == Lower(Suffix(name))
           content_type == MapGet(extension)
       IN  IF kind = "missing"
               THEN EndEarly(Raise("FileNotFoundError",
                                   Msg("Image file not found: {image_path}", <<>>, <<>>, NoVal)))
           ELSE IF content_type = <<>>
               THEN EndEarly(Raise("ValueError",
                                   Msg("Unsupported image format: {extension}", <<>>, <<>>, NoVal)))
           ELSE IF kind = "dir"
               \* open(image_path, 'rb') of a directory
               THEN EndEarly(Raise("IsADirectoryError", Msg("Is a directory", <<>>, <<>>, NoVal)))
           ELSE IssuePost("multipart", content_type, NoHeaders)
    /\ UNCHANGED <<api_key, timeout, jsonErrIsReqExc, fetched, response, printed,
                   exit_code, error, validatorVars>>

(* Lines 101-109 of process_receipt_bytes. *)
BytesPath(content_type) ==
    IF ~IsImageType(content_type)
        THEN EndEarly(Raise("ValueError",
                            Msg("Unsupported content type: {content_type}", <<>>, <<>>, NoVal)))
    ELSE IssuePost("raw", content_type,
                   Given("Content-Type" :> content_type @@ "X-API-Key" :> api_key))

(* process_receipt_bytes(image_data, content_type), to the POST or the     *)
(* exception.                                                              *)
process_receipt_bytes(content_type) ==
    /\ CanCall
    /\ Begin("lib", "bytes", FALSE, [NoArgs EXCEPT !.content_type = content_type])
    /\ BytesPath(content_type)
    /\ UNCHANGED <<api_key, timeout, jsonErrIsReqExc, fetched, response, printed,
                   exit_code, error, validatorVars>>

(* process_receipt_url(image_url), to requests.get. *)
process_receipt_url(c, v) ==
    /\ CanCall
    /\ Begin(c, "url", v, NoArgs)
    /\ pc' = "fetching"
    /\ UNCHANGED <<api_key, timeout, jsonErrIsReqExc, request, posts, fetched, response,
                   outcome, printed, exit_code, error, validatorVars>>

(* process_receipt_url from the answer of requests.get on, lines 126-135. *)
FetchDone(res) ==
    /\ pc = "fetching"
    /\ fetched' = res
    /\ IF res.kind = "failure"
           THEN EndEarly(LibraryError(res.cls))
       ELSE IF ~Ok(res.status)
           \* response.raise_for_status()
           THEN EndEarly(LibraryError("HTTPError"))
       ELSE IF ~IsImageType(res.content_type)
           THEN EndEarly(Raise("ValueError",
                               Msg("URL did not return an image (got {content_type})",
                                   <<>>, <<>>, NoVal)))
       ELSE BytesPath(res.content_type)
    /\ UNCHANGED <<api_key, timeout, jsonErrIsReqExc, caller, source, validate, args,
                   response, printed, exit_code, error, calls, validatorVars>>

(* _send_request(data, headers=headers) called with the caller's headers. *)
_send_request(headers) ==
    /\ CanCall
    /\ Begin("lib", "send", FALSE, [NoArgs EXCEPT !.headers = headers])
    /\ IssuePost("raw", <<>>, headers)
    /\ UNCHANGED <<api_key, timeout, jsonErrIsReqExc, fetched, response, printed,
                   exit_code, error, validatorVars>>

(* requests.post comes back; _send_request returns or raises, and so does  *)
(* the method that called it.                                              *)
PostDone(res) ==
    /\ pc = "posting"
    /\ response' = res
    /\ outcome' = SendResult(res)
    /\ pc' = "returned"
    /\ UNCHANGED <<api_key, timeout, jsonErrIsReqExc, caller, source, validate, args,
                   request, posts, fetched, printed, exit_code, error, calls, validatorVars>>

(* main after the call: validation if asked for, the print, the exit. *)
MainFinish ==
    /\ pc = "returned"
    /\ caller = "main"
    /\ LET m == MainAfterCall(validate, outcome)
       IN  /\ printed' = m.printed
           /\ exit_code' = m.exit_code
           /\ error' = m.error
    /\ pc' = "exited"
    /\ UNCHANGED <<api_key, timeout, jsonErrIsReqExc, caller, source, validate, args,
                   request, posts, fetched, response, outcome, calls, validatorVars>>

(* The next call on the client (a new run of main makes a new client with  *)
(* the same configuration).                                                *)
NextCall ==
    /\ \/ pc = "returned" /\ caller = "lib"
       \/ pc = "exited"
    /\ calls < MaxCalls
    /\ pc' = "idle"
    /\ caller' = "lib"
    /\ source' = "none"
    /\ validate' = FALSE
    /\ args' = NoArgs
    /\ request' = NoRequest
    /\ posts' = 0
    /\ fetched' = NoResponse
    /\ response' = NoResponse
    /\ outcome' = NoOutcome
    /\ printed' = NoVal
    /\ exit_code' = -1
    /\ error' = NoOutcome
    /\ UNCHANGED <<api_key, timeout, jsonErrIsReqExc, calls, validatorVars>>

ClientIdle ==
    /\ pc = "idle"
    /\ caller = "lib"
    /\ source = "none"
    /\ validate = FALSE
    /\ args = NoArgs
    /\ request = NoRequest
    /\ posts = 0
    /\ fetched = NoResponse
    /\ response = NoResponse
    /\ outcome = NoOutcome
    /\ printed = NoVal
    /\ exit_code = -1
    /\ error = NoOutcome
    /\ calls = 0

(* __init__: a client with a non-empty api_key. *)
Init ==
    /\ api_key \in ApiKeys
    /\ timeout \in Timeouts
    /\ jsonErrIsReqExc \in BOOLEAN
    /\ ClientIdle
    /\ doc = JNull
    /\ edits = 0
    /\ verdict = NoOutcome

Next ==
    \/ \E c \in Callers, v \in BOOLEAN, n \in FileNames, k \in PathKinds :
            process_receipt_file(c, v, n, k)
    \/ \E ct \in ContentTypes : process_receipt_bytes(ct)
    \/ \E c \in Callers, v \in BOOLEAN : process_receipt_url(c, v)
    \/ \E res \in GetResults : FetchDone(res)
    \/ \E h \in HeaderArgs : _send_request(h)
    \/ \E res \in PostResults : PostDone(res)
    \/ MainFinish
    \/ NextCall

Spec == Init /\ [][Next]_vars

InitValidate ==
    /\ api_key = "key-A"
    /\ timeout = 30
    /\ jsonErrIsReqExc = TRUE
    /\ ClientIdle
    /\ doc \in InitDocs
    /\ edits = 0
    /\ verdict = NoOutcome

NextValidate ==
    \/ \E f \in Range(required_fields), v \in FieldVals : SetField(f, v)
    \/ \E f \in Range(required_fields) : DelField(f)
    \/ \E i \in 1..MaxItems, k \in ItemKeys, v \in ScalarVals : SetItemField(i, k, v)
    \/ \E i \in 1..MaxItems, k \in ItemKeys : DelItemField(i, k)
    \/ \E i \in 1..MaxItems, v \in NonDictItems : ReplaceItem(i, v)
    \/ Validate

SpecValidate == InitValidate /\ [][NextValidate]_vars

----------------------------------------------------------------------------
(* The Receipt schema and the statements checked of validate_schema        *)
(* (SpecValidate).                                                         *)

IsJsonNumber(v) == v.t \in {"int", "float"}
IsJsonInteger(v) == v.t = "int"
IsJsonString(v) == v.t = "str"

WellFormedItem(item) ==
    /\ item.t = "obj"
    /\ {"name", "price", "count"} \subseteq DOMAIN item.fields
    /\ IsJsonString(item.fields["name"])
    /\ IsJsonNumber(item.fields["price"])
    /\ IsJsonInteger(item.fields["count"])

WellFormedReceipt(d) ==
    /\ d.t = "obj"
    /\ {"merchant_name", "datetime", "items", "sub_total", "vat", "service_charge", "total"}
            \subseteq DOMAIN d.fields
    /\ d.fields["items"].t = "list"
    /\ \A i \in 1..Len(d.fields["items"].elems) : WellFormedItem(d.fields["items"].elems[i])
    /\ \A f \in {"sub_total", "vat", "service_charge", "total"} : IsJsonNumber(d.fields[f])
    /\ IsJsonString(d.fields["merchant_name"])
    /\ IsJsonString(d.fields["datetime"])

Validated == verdict # NoOutcome

(* C1: validate_schema returns True exactly for the well-formed Receipts   *)
(* (seven fields present, items a list of objects with a string name, a    *)
(* numeric price and an integer count, four numeric totals, two strings),  *)
(* and raises an error for every other parsed JSON value.                  *)
C1_TrueIffWellFormed ==
    Validated =>
        /\ (verdict = Return(PyTrue)) <=> WellFormedReceipt(doc)
        /\ ~WellFormedReceipt(doc) => verdict.kind = "raise"

(* The part of C1 that the code keeps: a document in which no boolean      *)
(* stands where a number is expected.                                      *)
HasBoolean(d) ==
    /\ d.t = "obj"
    /\ \/ \E f \in DOMAIN d.fields : d.fields[f].t = "bool"
       \/ /\ "items" \in DOMAIN d.fields
          /\ d.fields["items"].t = "list"
          /\ \E i \in 1..Len(d.fields["items"].elems) :
                LET item == d.fields["items"].elems[i]
                IN  item.t = "obj" /\ \E k \in DOMAIN item.fields : item.fields[k].t = "bool"

C1_TrueIffWellFormed_NoBoolean ==
    (Validated /\ ~HasBoolean(doc)) =>
        /\ (verdict = Return(PyTrue)) <=> WellFormedReceipt(doc)
        /\ ~WellFormedReceipt(doc) => verdict.kind = "raise"

(* The violations of an object d, each with its place in the check order   *)
(* of the schema and the message that reports it.  i counts items from 0.  *)
Violation(rank, msg) == [rank |-> rank, msg |-> msg]

ItemViolations(i, item) ==
    LET base == 3000 + 10 * i
        Has(k) == item.t = "obj" /\ k \in DOMAIN item.fields
    IN  {Violation(base + 1, ItemMsg("Item at index {i} is not a dictionary", i)) :
            x \in {1} \cap (IF item.t # "obj" THEN {1} ELSE {})}
        \cup {Violation(base + 2, ItemMsg("Item at index {i} is missing 'name' field", i)) :
            x \in {1} \cap (IF item.t = "obj" /\ ~Has("name") THEN {1} ELSE {})}
        \cup {Violation(base + 3, ItemMsg("Item at index {i} is missing 'price' field", i)) :
            x \in {1} \cap (IF item.t = "obj" /\ ~Has("price") THEN {1} ELSE {})}
        \cup {Violation(base + 4, ItemMsg("Item at index {i} is missing 'count' field", i)) :
            x \in {1} \cap (IF item.t = "obj" /\ ~Has("count") THEN {1} ELSE {})}
        \cup {Violation(base + 5, ItemMsg("Item at index {i} has 'name' that is not a string", i)) :
            x \in {1} \cap (IF Has("name") /\ ~IsJsonString(item.fields["name"]) THEN {1} ELSE {})}
        \cup {Violation(base + 6, ItemMsg("Item at index {i} has 'price' that is not a number", i)) :
            x \in {1} \cap (IF Has("price") /\ ~IsJsonNumber(item.fields["price"]) THEN {1} ELSE {})}
        \cup {Violation(base + 7, ItemMsg("Item at index {i} has 'count' that is not an integer", i)) :
            x \in {1} \cap (IF Has("count") /\ ~IsJsonInteger(item.fields["count"]) THEN {1} ELSE {})}

Violations(d) ==
    LET Has(f) == f \in DOMAIN d.fields IN
    {Violation(1000 + k, MissingField(required_fields[k])) :
        k \in {j \in 1..Len(required_fields) : ~Has(required_fields[j])}}
    \cup {Violation(2000, FieldMsg("The 'items' field must be a list", "items")) :
        x \in {1} \cap (IF Has("items") /\ d.fields["items"].t # "list" THEN {1} ELSE {})}
    \cup (IF Has("items") /\ d.fields["items"].t = "list"
          THEN UNION {ItemViolations(i - 1, d.fields["items"].elems[i]) :
                        i \in 1..Len(d.fields["items"].elems)}
          ELSE {})
    \cup {Violation(4000 + k, FieldMsg("The '{field}' field must be a number", numeric_fields[k])) :
        k \in {j \in 1..Len(numeric_fields) :
                Has(numeric_fields[j]) /\ ~IsJsonNumber(d.fields[numeric_fields[j]])}}
    \cup {Violation(5001, FieldMsg("The 'merchant_name' field must be a string", "merchant_name")) :
        x \in {1} \cap (IF Has("merchant_name") /\ ~IsJsonString(d.fields["merchant_name"])
                        THEN {1} ELSE {})}
    \cup {Violation(5002, FieldMsg("The 'datetime' field must be a string", "datetime")) :
        x \in {1} \cap (IF Has("datetime") /\ ~IsJsonString(d.fields["datetime"])
                        THEN {1} ELSE {})}

Earliest(vs) == CHOOSE v \in vs : \A w \in vs : v.rank <= w.rank

(* C3: the error validate_schema raises for an object reports one          *)
(* violation, the earliest in the check order: missing top-level fields in *)
(* the order of the list, items not a list, then per item in index order   *)
(* (not an object, name, price, count missing, name, price, count of the   *)
(* wrong type), then the four numeric fields, then the two strings.        *)
C3_EarliestViolationReported ==
    (Validated /\ doc.t = "obj" /\ verdict.kind = "raise") =>
        /\ Violations(doc) # {}
        /\ verdict = Raise("ValueError", Earliest(Violations(doc)).msg)

C3_EarliestViolationReported_NoBoolean ==
    (Validated /\ doc.t = "obj" /\ ~HasBoolean(doc) /\ verdict.kind = "raise") =>
        /\ Violations(doc) # {}
        /\ verdict = Raise("ValueError", Earliest(Violations(doc)).msg)

(* A body without items is rejected with the error that names items. *)
C3_MissingItemsNamed ==
    (Validated /\ doc.t = "obj" /\ DOMAIN doc.fields = Range(required_fields) \ {"items"}) =>
        verdict = Raise("ValueError", MissingField("items"))

----------------------------------------------------------------------------
(* The statements checked of the calls (Spec).                             *)

Ended == pc \in {"returned", "exited"}
FromSource == source \in {"file", "bytes", "url"}

(* The success range of HTTP statuses. *)
SuccessStatus(status) == 200 <= status /\ status < 300

TimeoutTpl == "Request timed out after {self.timeout} seconds"
NetworkTpl == "Network error: {str(e)}"

(* The failure kinds, read off the exception a call ends with. *)
IsTimeoutError(out) == out.kind = "raise" /\ out.exc = "ValueError" /\ out.msg.tpl = TimeoutTpl
IsNetworkError(out) == out.kind = "raise" /\ out.exc = "ValueError" /\ out.msg.tpl = NetworkTpl
IsHttpStatusError(out) ==
    /\ out.kind = "raise"
    /\ out.exc = "ValueError"
    /\ out.msg.tpl \in {"{error_message}", "API error: {response.status_code}",
                        "API error: {response.status_code} {response.text}"}

(* "starts with image/", character by character. *)
HasImagePrefix(ct) ==
    /\ Len(ct) >= 6
    /\ ct[1] = "i" /\ ct[2] = "m" /\ ct[3] = "a" /\ ct[4] = "g" /\ ct[5] = "e" /\ ct[6] = "/"

AllowList ==
    {<<"i", "m", "a", "g", "e", "/", "j", "p", "e", "g">>,
     <<"i", "m", "a", "g", "e", "/", "p", "n", "g">>,
     <<"i", "m", "a", "g", "e", "/", "g", "i", "f">>,
     <<"i", "m", "a", "g", "e", "/", "b", "m", "p">>,
     <<"i", "m", "a", "g", "e", "/", "w", "e", "b", "p">>,
     <<"i", "m", "a", "g", "e", "/", "h", "e", "i", "c">>}

(* The extension table of the specification: extension, content type. *)
ExtensionTable ==
    {<<<<".", "j", "p", "g">>, <<"i", "m", "a", "g", "e", "/", "j", "p", "e", "g">>>>,
     <<<<".", "j", "p", "e", "g">>, <<"i", "m", "a", "g", "e", "/", "j", "p", "e", "g">>>>,
     <<<<".", "p", "n", "g">>, <<"i", "m", "a", "g", "e", "/", "p", "n", "g">>>>,
     <<<<".", "g", "i", "f">>, <<"i", "m", "a", "g", "e", "/", "g", "i", "f">>>>,
     <<<<".", "b", "m", "p">>, <<"i", "m", "a", "g", "e", "/", "b", "m", "p">>>>,
     <<<<".", "w", "e", "b", "p">>, <<"i", "m", "a", "g", "e", "/", "w", "e", "b", "p">>>>,
     <<<<".", "h", "e", "i", "c">>, <<"i", "m", "a", "g", "e", "/", "h", "e", "i", "c">>>>}

SameIgnoringCase(a, b) ==
    /\ Len(a) = Len(b)
    /\ \A i \in 1..Len(a) : LowerChar(a[i]) = LowerChar(b[i])

(* name ends in the extension ext: a dot that is not the first character,  *)
(* followed to the end of the name by the characters of ext, no dot among  *)
(* them.                                                                   *)
HasExtension(name, ext) ==
    \E k \in 2..Len(name) :
        /\ name[k] = "."
        /\ \A j \in (k + 1)..Len(name) : name[j] # "."
        /\ SameIgnoringCase(SubSeq(name, k, Len(name)), ext)

ListedAs(name) == {row \in ExtensionTable : HasExtension(name, row[1])}

(* C2: every value a process_receipt_* call returns passes the Schema      *)
(* Validator; a success response whose body violates the schema is never   *)
(* returned.                                                               *)
C2_ReturnedValuePassesValidator ==
    (Ended /\ FromSource /\ outcome.kind = "return") =>
        validate_schema(outcome.value) = Return(PyTrue)

(* C2 as amended: the call returns the parsed body of a success response   *)
(* as it is; the validator runs when the caller asks for it (main with     *)
(* --validate), and then a body it rejects is never printed: main ends     *)
(* with the validator's error and exit status 1.  Without --validate the   *)
(* parsed body is printed unvalidated.                                     *)
C2_ValidatedWhenRequested ==
    (pc = "exited" /\ outcome.kind = "return") =>
        /\ outcome.value = JsonLoads(response.body).value
        /\ (validate /\ validate_schema(outcome.value).kind = "raise") =>
                /\ printed = NoVal
                /\ exit_code = 1
                /\ error = validate_schema(outcome.value)
        /\ (validate /\ printed # NoVal) => validate_schema(printed) = Return(PyTrue)
        /\ ~validate => (printed = outcome.value /\ exit_code = 0)

C2_Witness ==
    /\ pc = "exited"
    /\ validate
    /\ response.kind = "response"
    /\ response.status = 200
    /\ response.body = BodyNoItems
    /\ printed = NoVal
    /\ exit_code = 1
    /\ error = Raise("ValueError", MissingField("items"))

(* C4: a response whose status is outside the success range makes          *)
(* _send_request fail with the HttpStatus error: the message is the value  *)
(* of the body's error field when the body is JSON, the status code and    *)
(* the raw text when it is not, and the failure is never turned into a     *)
(* Timeout, Network or other error.                                        *)
C4_ErrorStatusIsHttpStatus ==
    (Ended /\ response.kind = "response" /\ ~SuccessStatus(response.status)) =>
        /\ IsHttpStatusError(outcome)
        /\ (JsonLoads(response.body).ok /\ JsonLoads(response.body).value.t = "obj"
                /\ "error" \in DOMAIN JsonLoads(response.body).value.fields)
            => outcome.msg.val = JsonLoads(response.body).value.fields["error"]
        /\ ~JsonLoads(response.body).ok
            => (outcome.msg.strs = <<response.body>> /\ outcome.msg.nums = <<response.status>>)

(* The part of C4 that the code keeps: bodies that are JSON objects or no  *)
(* JSON at all.                                                            *)
C4_ErrorStatusIsHttpStatus_ObjectOrText ==
    (Ended /\ response.kind = "response" /\ ~SuccessStatus(response.status)
        /\ (JsonLoads(response.body).ok => JsonLoads(response.body).value.t = "obj")) =>
        /\ IsHttpStatusError(outcome)
        /\ (JsonLoads(response.body).ok /\ "error" \in DOMAIN JsonLoads(response.body).value.fields)
            => outcome.msg.val = JsonLoads(response.body).value.fields["error"]
        /\ ~JsonLoads(response.body).ok
            => (outcome.msg.strs = <<response.body>> /\ outcome.msg.nums = <<response.status>>)

(* C5: a success status with a body that is no JSON ends the call in an    *)
(* error that is neither the Network nor the Timeout error, and returns    *)
(* no result.                                                              *)
C5_MalformedNotNetwork ==
    (Ended /\ response.kind = "response" /\ SuccessStatus(response.status)
        /\ ~JsonLoads(response.body).ok) =>
        /\ outcome.kind = "raise"
        /\ ~IsNetworkError(outcome)
        /\ ~IsTimeoutError(outcome)

C7_ContentTypeInAllowList ==
    (request.sent /\ FromSource) =>
        /\ HasImagePrefix(request.content_type)
        /\ request.content_type \in AllowList

(* The part of C7 that the code keeps. *)
C7_ContentTypeIsImage ==
    (request.sent /\ FromSource) =>
        /\ HasImagePrefix(request.content_type)
        /\ source = "file" => request.content_type \in AllowList

(* C8: every POST carries credentials.  X-API-Key, with the configured     *)
(* key, is added exactly when the headers passed hold neither X-API-Key    *)
(* nor Authorization; a header passed is never changed or dropped; and a   *)
(* file, bytes or URL call posts with X-API-Key equal to api_key.          *)
C8_ApiKeyHeader ==
    request.sent =>
        LET passed == IF args.headers.given THEN args.headers.map ELSE EmptyFields
            sentH == request.headers
            neither == "X-API-Key" \notin DOMAIN passed /\ "Authorization" \notin DOMAIN passed
        IN  /\ "X-API-Key" \in DOMAIN sentH \/ "Authorization" \in DOMAIN sentH
            /\ FromSource =>
                    ("X-API-Key" \in DOMAIN sentH /\ sentH["X-API-Key"] = api_key)
            /\ source = "send" =>
                    /\ \A k \in DOMAIN passed : k \in DOMAIN sentH /\ sentH[k] = passed[k]
                    /\ DOMAIN sentH \subseteq DOMAIN passed \cup {"X-API-Key"}
                    /\ ("X-API-Key" \in DOMAIN sentH \ DOMAIN passed) <=> neither
                    /\ neither => sentH["X-API-Key"] = api_key

C8_Witness ==
    /\ request.sent
    /\ source = "send"
    /\ args.headers.given
    /\ "X-API-Key" \in DOMAIN args.headers.map
    /\ request.headers["X-API-Key"] = "other-key"
    /\ api_key # "other-key"

(* C9: process_receipt_file fails with FileNotFound for a path that does   *)
(* not exist, whatever its extension; for an existing file it posts with   *)
(* the content type the table gives for the extension, compared without    *)
(* regard to case, and fails with UnsupportedFormat when the extension is  *)
(* not in the table or is empty.                                           *)
C9_ExtensionTable ==
    (source = "file" /\ pc # "idle") =>
        LET path == args.image_path
            rows == ListedAs(path.name)
        IN  /\ path.kind = "missing" =>
                    /\ outcome.kind = "raise"
                    /\ outcome.exc = "FileNotFoundError"
                    /\ ~request.sent
            /\ (path.kind = "file" /\ rows # {}) =>
                    /\ request.sent
                    /\ \A row \in rows : request.content_type = row[2]
            /\ (path.kind = "file" /\ rows = {}) =>
                    /\ outcome.kind = "raise"
                    /\ outcome.exc = "ValueError"
                    /\ outcome.msg.tpl = "Unsupported image format: {extension}"
                    /\ ~request.sent

C9_Witness ==
    /\ source = "file"
    /\ pc = "posting"
    /\ args.image_path.kind = "file"
    /\ args.image_path.name = <<"r", ".", "J", "P", "G">>
    /\ request.sent
    /\ request.content_type = <<"i", "m", "a", "g", "e", "/", "j", "p", "e", "g">>

(* Normalization fails: the file is missing or its extension is not in the *)
(* table, the declared or fetched content type does not start with image/, *)
(* or the image could not be fetched.                                      *)
NormalizationFails ==
    \/ source = "file"
        /\ (args.image_path.kind = "missing" \/ ListedAs(args.image_path.name) = {})
    \/ source = "bytes" /\ ~HasImagePrefix(args.content_type)
    \/ source = "url" /\ fetched.kind = "failure"
    \/ source = "url" /\ fetched.kind = "response"
        /\ (~SuccessStatus(fetched.status) \/ ~HasImagePrefix(fetched.content_type))

(* C10: a call posts to the endpoint at most once, whatever the POST comes *)
(* back with, and not at all when normalization fails.                     *)
C10_AtMostOnePost ==
    /\ posts <= 1
    /\ request.sent <=> posts = 1
    /\ NormalizationFails => posts = 0
    /\ (Ended /\ response.kind # "none") => posts = 1

C10_Witness ==
    /\ pc = "returned"
    /\ source = "url"
    /\ fetched.kind = "response"
    /\ SuccessStatus(fetched.status)
    /\ ~HasImagePrefix(fetched.content_type)
    /\ posts = 0
    /\ outcome.kind = "raise"

====
